---- MODULE Spec2Model ----
(***************************************************************************)
(* Customer segmentation core of the purchase dashboard (src/app.py):      *)
(* calculate_abc_segmentation, calculate_frequency_segmentation and        *)
(* calculate_rfm_segmentation, run by the script on the filtered dataset   *)
(* according to the selected analysis mode.                                *)
(*                                                                         *)
(* Numbers.  Purchase amounts and dates (day numbers) are integers.        *)
(*  - a cumulative share (float cum / total * 100) is kept as the exact    *)
(*    fraction [num, den], or NaN for 0 / 0;                               *)
(*  - RFM_Score (float (R + F + M) / 3) is kept in units of 1/30, so that  *)
(*    thirds and tenths are both integers: 4.5 is 135, 3.5 is 105;         *)
(*  - quantile edges are kept multiplied by 5 and equal-width edges        *)
(*    multiplied by 5000, which makes them integers.  The quantile edges   *)
(*    agree with the floating-point ones whenever the number of customers  *)
(*    minus one is not a positive multiple of 5 (no interpolated edge      *)
(*    falls on a data point then); the datasets below respect this.        *)
(*                                                                         *)
(* Labels (the source's strings):  champion = 優良顧客, promising =         *)
(* 有望顧客, dormant = 休眠顧客, new_high_value = 新規優良顧客,              *)
(* new = 新規顧客, general = 一般顧客, repeat = リピーター,                  *)
(* loyal = ロイヤル顧客.                                                    *)
(***************************************************************************)
EXTENDS Integers, Sequences, FiniteSets, TLC

VARIABLES pc, filtered_df, analysis_mode, abc_data, freq_data, rfm_data, probe,
          tie_order, abc_metrics, previous

vars == <<pc, filtered_df, analysis_mode, abc_data, freq_data, rfm_data, probe,
          tie_order, abc_metrics, previous>>

(***************************************************************************)
(* Bounds of the enumerated datasets.                                      *)
(***************************************************************************)
MaxCustomers == 4

MaxRecords == 4

\* Bounds of the datasets whose records are also presented in other orders.
MaxShuffledCustomers == 2

MaxShuffledRecords == 3

Amounts == {0, 1}

Dates == {0, 1}

----------------------------------------------------------------------------
(* Generic helpers on sequences of integers.                               *)

RECURSIVE SeqSum(_)
SeqSum(s) == IF s = <<>> THEN 0 ELSE s[1] + SeqSum(Tail(s))

SetMax(S) == CHOOSE m \in S : \A y \in S : y <= m

SetMin(S) == CHOOSE m \in S : \A y \in S : m <= y

Range(s) == {s[i] : i \in DOMAIN s}

\* The elements of a set of integers in ascending order.
RECURSIVE SortedIds(_)
SortedIds(S) ==
  IF S = {} THEN <<>> ELSE <<SetMin(S)>> \o SortedIds(S \ {SetMin(S)})

\* A sequence of integers in ascending order (duplicates kept).
RECURSIVE SortAscending(_)
SortAscending(x) ==
  IF x = <<>> THEN <<>>
  ELSE LET m == SetMin(Range(x))
           i == CHOOSE j \in DOMAIN x : x[j] = m
       IN <<m>> \o SortAscending([j \in 1..(Len(x) - 1) |-> IF j < i THEN x[j] ELSE x[j + 1]])

----------------------------------------------------------------------------
(* Aggregation: df.groupby(customer).agg(sum of amount, count of dates).   *)
(* groupby orders the groups by ascending key.                             *)

RecordsOf(df, c) == SelectSeq(df, LAMBDA r : r.customer_id = c)

CustomerIds(df) == {df[i].customer_id : i \in DOMAIN df}

SumAmount(df, c) ==
  LET rs == RecordsOf(df, c) IN SeqSum([i \in DOMAIN rs |-> rs[i].amount])

\* Variant of CountPurchases that counts the customer's distinct purchase
\* dates ('nunique') instead of the customer's records ('count').
CountPurchases_distinct_dates(df, c) ==
  LET rs == RecordsOf(df, c) IN Cardinality({rs[i].date : i \in DOMAIN rs})

CountPurchases(df, c) == Len(RecordsOf(df, c))

\* Variant of LastPurchase that takes the date of the customer's last row
\* (x.iloc[-1]) instead of the latest date (x.max()).
LastPurchase_last_row(df, c) ==
  LET rs == RecordsOf(df, c) IN rs[Len(rs)].date

LastPurchase(df, c) ==
  LET rs == RecordsOf(df, c) IN SetMax({rs[i].date : i \in DOMAIN rs})

customer_sales(df) ==
  LET ids == SortedIds(CustomerIds(df))
  IN [i \in DOMAIN ids |->
        [customer_id    |-> ids[i],
         total_amount   |-> SumAmount(df, ids[i]),
         purchase_count |-> CountPurchases(df, ids[i])]]

----------------------------------------------------------------------------
(* ABC segmentation.                                                       *)

\* sort_values('total', ascending=False) with the default kind='quicksort':
\* the rows in descending order of total amount.  NumPy's quicksort is not
\* a stable sort, so the relative order of rows with equal totals is one of
\* the orders the build can produce: every descending order is possible.
RECURSIVE DescendingOrders(_, _)
DescendingOrders(rows, I) ==
  IF I = {} THEN {<<>>}
  ELSE LET top   == SetMax({rows[i].total_amount : i \in I})
           heads == {i \in I : rows[i].total_amount = top}
       IN UNION {{<<rows[h]>> \o t : t \in DescendingOrders(rows, I \ {h})} : h \in heads}

sort_values(rows) == DescendingOrders(rows, DOMAIN rows)

NaN == [nan |-> TRUE]

\* cum / total_sales * 100 on an integer column: 0 / 0 is NaN (no exception
\* is raised by the vectorised division); amounts are non-negative, so a
\* zero total_sales means every cumulative amount is zero.
cum_ratio(cum, total_sales) ==
  IF total_sales = 0 THEN NaN ELSE [nan |-> FALSE, num |-> cum * 100, den |-> total_sales]

\* int(total_customers * 0.2) and int(total_customers * 0.5)
a_boundary(total_customers) == (total_customers * 2) \div 10

b_boundary(total_customers) == (total_customers * 5) \div 10

\* Variant of abc_rank without the default assignment of 'C' (line 100): rows
\* outside both slices are left without a rank.
abc_rank_no_default(i, total_customers) ==
  LET label == i - 1
  IN IF a_boundary(total_customers) <= label /\ label <= b_boundary(total_customers) THEN "B"
     ELSE IF label <= a_boundary(total_customers) THEN "A"
     ELSE ""

\* The three assignments of the rank column, in program order.  Row labels
\* are 0-based (reset_index), i is 1-based; a .loc slice is label based and
\* includes both of its end points.
abc_rank(i, total_customers) ==
  LET label == i - 1
      step1 == "C"
      step2 == IF label <= a_boundary(total_customers) THEN "A" ELSE step1
      step3 == IF a_boundary(total_customers) <= label /\ label <= b_boundary(total_customers)
               THEN "B" ELSE step2
  IN step3

abc_rows(sorted) ==
  LET totals          == [i \in DOMAIN sorted |-> sorted[i].total_amount]
      total_sales     == SeqSum(totals)
      total_customers == Len(sorted)
  IN [i \in DOMAIN sorted |->
        [customer_id    |-> sorted[i].customer_id,
         total_amount   |-> sorted[i].total_amount,
         purchase_count |-> sorted[i].purchase_count,
         cum_sales      |-> SeqSum(SubSeq(totals, 1, i)),
         cum_ratio      |-> cum_ratio(SeqSum(SubSeq(totals, 1, i)), total_sales),
         abc_rank       |-> abc_rank(i, total_customers)]]

\* The set of tables the call can return (one per possible order of ties).
calculate_abc_segmentation(df) ==
  {[status |-> "ok", rows |-> abc_rows(s)] : s \in sort_values(customer_sales(df))}

\* The customers of a table in row order.
RowIds(rows) == [i \in DOMAIN rows |-> rows[i].customer_id]

\* The orders in which sort_values can leave the customers of df.  The
\* sort is a deterministic function of the aggregated column, so one build
\* leaves the customers of one aggregate in one of these orders, always
\* the same: tie_order records the order once the sort has run.
TieOrders(df) == {RowIds(s) : s \in sort_values(customer_sales(df))}

\* The table the call returns on a build that leaves ties in the order
\* tie.
abc_tables(df, tie) == {t \in calculate_abc_segmentation(df) : RowIds(t.rows) = tie}

\* The metrics shown for the ABC mode.  a_customers / len(abc_data) is a
\* division of Python integers and raises ZeroDivisionError for an empty
\* table; a_sales / abc_data[total].sum() is a division of NumPy scalars
\* and yields NaN for 0 / 0.
abc_metrics_block(abc) ==
  LET A      == {i \in DOMAIN abc.rows : abc.rows[i].abc_rank = "A"}
      totals == [i \in DOMAIN abc.rows |-> abc.rows[i].total_amount]
      a_tot  == [i \in DOMAIN abc.rows |-> IF i \in A THEN abc.rows[i].total_amount ELSE 0]
  IN IF Len(abc.rows) = 0
     THEN [status |-> "error", exception |-> "ZeroDivisionError"]
     ELSE [status       |-> "ok",
           exception    |-> "",
           a_customers  |-> Cardinality(A),
           a_share      |-> [nan |-> FALSE, num |-> Cardinality(A) * 100, den |-> Len(abc.rows)],
           a_sales      |-> SeqSum(a_tot),
           a_sales_share |-> cum_ratio(SeqSum(a_tot), SeqSum(totals)),
           b_customers  |-> Cardinality({i \in DOMAIN abc.rows : abc.rows[i].abc_rank = "B"}),
           c_customers  |-> Cardinality({i \in DOMAIN abc.rows : abc.rows[i].abc_rank = "C"})]

----------------------------------------------------------------------------
(* Frequency segmentation.                                                 *)

\* Variant of classify_frequency with the repeat range ending at 3.
classify_frequency_short_repeat(count) ==
  IF count = 1 THEN "new"
  ELSE IF 2 <= count /\ count < 4 THEN "repeat"
  ELSE "loyal"

classify_frequency(count) ==
  IF count = 1 THEN "new"
  ELSE IF 2 <= count /\ count <= 4 THEN "repeat"
  ELSE "loyal"

calculate_frequency_segmentation(df) ==
  LET customer_freq == customer_sales(df)
  IN [status |-> "ok",
      rows   |-> [i \in DOMAIN customer_freq |->
                    [customer_id    |-> customer_freq[i].customer_id,
                     total_amount   |-> customer_freq[i].total_amount,
                     purchase_count |-> customer_freq[i].purchase_count,
                     segment        |-> classify_frequency(customer_freq[i].purchase_count)]]]

----------------------------------------------------------------------------
(* RFM segmentation: scoring.                                              *)

\* q=5 of pd.qcut and bins=5 of pd.cut
NumBins == 5

\* Variant of R_labels without the inversion: the recency bins are labelled
\* 1..5 like the frequency and monetary bins.
R_labels_not_inverted == <<1, 2, 3, 4, 5>>

\* Variant of R_labels numbered from 0.
R_labels_from_zero == <<4, 3, 2, 1, 0>>

R_labels == <<5, 4, 3, 2, 1>>

FM_labels == <<1, 2, 3, 4, 5>>

\* 5 * (the k/5 quantile of x, linear interpolation): the quantile sits at
\* position k*(n-1)/5 of the ascending values.
QuantileEdge(x, k) ==
  LET xs   == SortAscending(x)
      pos  == k * (Len(x) - 1)
      lo   == (pos \div NumBins) + 1
      frac == pos % NumBins
  IN IF frac = 0 THEN NumBins * xs[lo]
     ELSE NumBins * xs[lo] + frac * (xs[lo + 1] - xs[lo])

\* pd.qcut(x, q=5, labels=<5 labels>, duplicates='drop') raises ValueError
\* when edges coincide: the duplicates are dropped and the 5 labels no
\* longer are one fewer than the edges.  The quantiles of an empty column
\* are all NaN and collapse to one edge.
QcutRaises(x) ==
  \/ x = <<>>
  \/ \E k \in 0..(NumBins - 1) : QuantileEdge(x, k) = QuantileEdge(x, k + 1)

\* Bin of value v, 1..5: searchsorted(side='left') over the edges, and
\* include_lowest puts the minimum in bin 1.
QcutBin(x, v) ==
  IF NumBins * v = QuantileEdge(x, 0) THEN 1
  ELSE Cardinality({k \in 0..NumBins : QuantileEdge(x, k) < NumBins * v})

qcut(x, labels) == [i \in DOMAIN x |-> labels[QcutBin(x, x[i])]]

\* Variant of CutRaises in which a column of one single value cannot be cut
\* either (no widening of the zero-width range).
CutRaises_zero_width(x) == x = <<>> \/ Cardinality(Range(x)) = 1

\* pd.cut(x, bins=5, labels=...) raises ValueError("Cannot cut empty array").
CutRaises(x) == x = <<>>

\* Variant of CutEdge that widens a zero-width range downward only, so that
\* the single value is the upper end of the last bin.
CutEdge_widen_downward(x, k) ==
  LET mn == SetMin(Range(x))
      mx == SetMax(Range(x))
      w  == IF mn = 0 THEN 1 ELSE IF mn < 0 THEN 0 - mn ELSE mn
  IN IF mn = mx THEN 5000 * mn - 10 * w + 2 * k * w
     ELSE IF k = 0 THEN 5000 * mn - 5 * (mx - mn)
     ELSE 5000 * mn + 1000 * k * (mx - mn)

\* 5000 * (edge k of the equal-width bins).  With mn < mx the edges are
\* linspace(mn, mx, 6) and the first is lowered by 0.001 * (mx - mn); with
\* mn = mx the range is widened by 0.001 * |mn| (0.001 if mn = 0) on both
\* sides first.
CutEdge(x, k) ==
  LET mn == SetMin(Range(x))
      mx == SetMax(Range(x))
      w  == IF mn = 0 THEN 1 ELSE IF mn < 0 THEN 0 - mn ELSE mn
  IN IF mn = mx THEN 5000 * mn - 5 * w + 2 * k * w
     ELSE IF k = 0 THEN 5000 * mn - 5 * (mx - mn)
     ELSE 5000 * mn + 1000 * k * (mx - mn)

\* Bin of value v: searchsorted(side='left'), intervals closed on the right.
CutBin(x, v) == Cardinality({k \in 0..NumBins : CutEdge(x, k) < 5000 * v})

cut(x, labels) == [i \in DOMAIN x |-> labels[CutBin(x, x[i])]]

\* Variant of score_column that bins the rank of each value (ties ranked in
\* row order, as x.rank(method='first')) instead of the value.
score_column_by_rank(x, labels) ==
  LET ranks == [i \in DOMAIN x |->
                  Cardinality({j \in DOMAIN x : x[j] < x[i] \/ (x[j] = x[i] /\ j <= i)})]
  IN IF ~QcutRaises(ranks) THEN [path |-> "qcut", scores |-> qcut(ranks, labels)]
     ELSE IF ~CutRaises(ranks) THEN [path |-> "cut", scores |-> cut(ranks, labels)]
     ELSE [path |-> "raise", scores |-> <<>>]

\* try: qcut ... except: cut ...   The result names the branch that
\* produced the scores; "raise" is an exception leaving the except branch.
score_column(x, labels) ==
  IF ~QcutRaises(x) THEN [path |-> "qcut", scores |-> qcut(x, labels)]
  ELSE IF ~CutRaises(x) THEN [path |-> "cut", scores |-> cut(x, labels)]
  ELSE [path |-> "raise", scores |-> <<>>]

----------------------------------------------------------------------------
(* RFM segmentation: classification.                                       *)

\* (R + F + M) / 3 in units of 1/30
RFM_Score(r, f, m) == (r + f + m) * 10

\* 4.5 and 3.5 in units of 1/30
ChampionScore == 135

PromisingScore == 105

\* Variant of classify_rfm that tests the frequency rules first.
classify_rfm_frequency_first(row) ==
  IF row.F_Score = 1 /\ row.M_Score >= 4 THEN "new_high_value"
  ELSE IF row.F_Score = 1 THEN "new"
  ELSE IF row.RFM_Score >= ChampionScore THEN "champion"
  ELSE IF row.RFM_Score >= PromisingScore THEN "promising"
  ELSE IF row.R_Score <= 2 THEN "dormant"
  ELSE "general"

classify_rfm(row) ==
  IF row.RFM_Score >= ChampionScore THEN "champion"
  ELSE IF row.RFM_Score >= PromisingScore THEN "promising"
  ELSE IF row.R_Score <= 2 THEN "dormant"
  ELSE IF row.F_Score = 1 /\ row.M_Score >= 4 THEN "new_high_value"
  ELSE IF row.F_Score = 1 THEN "new"
  ELSE "general"

snapshot_date(df) == SetMax({df[i].date : i \in DOMAIN df})

\* The per-customer Recency / Frequency / Monetary table.
rfm_metrics(df) ==
  LET ids == SortedIds(CustomerIds(df))
  IN [i \in DOMAIN ids |->
        [customer_id |-> ids[i],
         Recency     |-> snapshot_date(df) - LastPurchase(df, ids[i]),
         Frequency   |-> CountPurchases(df, ids[i]),
         Monetary    |-> SumAmount(df, ids[i])]]

calculate_rfm_segmentation(df) ==
  LET rfm == rfm_metrics(df)
      R   == score_column([i \in DOMAIN rfm |-> rfm[i].Recency], R_labels)
      F   == score_column([i \in DOMAIN rfm |-> rfm[i].Frequency], FM_labels)
      M   == score_column([i \in DOMAIN rfm |-> rfm[i].Monetary], FM_labels)
      scored(i) ==
        [customer_id |-> rfm[i].customer_id,
         Recency     |-> rfm[i].Recency,
         Frequency   |-> rfm[i].Frequency,
         Monetary    |-> rfm[i].Monetary,
         R_Score     |-> R.scores[i],
         F_Score     |-> F.scores[i],
         M_Score     |-> M.scores[i],
         RFM_Score   |-> RFM_Score(R.scores[i], F.scores[i], M.scores[i])]
  IN IF "raise" \in {R.path, F.path, M.path}
     THEN [status |-> "error", exception |-> "ValueError", rows |-> <<>>,
           R_path |-> R.path, F_path |-> F.path, M_path |-> M.path]
     ELSE [status |-> "ok", exception |-> "",
           rows   |-> [i \in DOMAIN rfm |->
                         [segment |-> classify_rfm(scored(i))] @@ scored(i)],
           R_path |-> R.path, F_path |-> F.path, M_path |-> M.path]

----------------------------------------------------------------------------
(* The filtered datasets the script is run on.                             *)

Records == [customer_id : 1..MaxCustomers, amount : Amounts, date : Dates]

\* r1 is not after r2 in the order (customer, amount, date).
NotAfter(r1, r2) ==
  \/ r1.customer_id < r2.customer_id
  \/ r1.customer_id = r2.customer_id /\ r1.amount < r2.amount
  \/ r1.customer_id = r2.customer_id /\ r1.amount = r2.amount /\ r1.date <= r2.date

\* Every collection of n records over Records, each listed once, in the
\* order (customer, amount, date).
RECURSIVE DatasetsFrom(_, _)
DatasetsFrom(n, allowed) ==
  IF n = 0 THEN {<<>>}
  ELSE UNION {{<<r>> \o t : t \in DatasetsFrom(n - 1, {q \in allowed : NotAfter(r, q)})}
              : r \in allowed}

Datasets == UNION {DatasetsFrom(n, Records) : n \in 0..MaxRecords}

\* spec.md section 8: 10 customers, one purchase each, 1000, 900, ..., 100.
Scenario10 == [i \in 1..10 |-> [customer_id |-> i, amount |-> 1100 - 100 * i, date |-> 0]]

\* spec.md section 8: a single customer with a single purchase of 500.
ScenarioSingle == <<[customer_id |-> 1, amount |-> 500, date |-> 0]>>

\* Five customers with 5, 2, 1, 1 and 3 purchases, distinct totals and
\* distinct last purchase dates.
ScenarioMixed ==
  <<[customer_id |-> 1, amount |-> 100, date |-> 1],
    [customer_id |-> 1, amount |-> 100, date |-> 2],
    [customer_id |-> 1, amount |-> 100, date |-> 3],
    [customer_id |-> 1, amount |-> 100, date |-> 4],
    [customer_id |-> 1, amount |-> 100, date |-> 5],
    [customer_id |-> 2, amount |-> 300, date |-> 2],
    [customer_id |-> 2, amount |-> 300, date |-> 9],
    [customer_id |-> 3, amount |-> 50, date |-> 1],
    [customer_id |-> 4, amount |-> 2000, date |-> 7],
    [customer_id |-> 5, amount |-> 10, date |-> 3],
    [customer_id |-> 5, amount |-> 10, date |-> 4],
    [customer_id |-> 5, amount |-> 10, date |-> 6]>>

\* Five customers with one purchase each; customers 2 and 3 have the same
\* amount and the same date.
ScenarioTies ==
  <<[customer_id |-> 1, amount |-> 30, date |-> 1],
    [customer_id |-> 2, amount |-> 50, date |-> 2],
    [customer_id |-> 3, amount |-> 50, date |-> 2],
    [customer_id |-> 4, amount |-> 500, date |-> 3],
    [customer_id |-> 5, amount |-> 600, date |-> 4]>>

Scenarios == {Scenario10, ScenarioSingle, ScenarioMixed, ScenarioTies}

\* Rows handed to classify_rfm on their own (spec.md section 8, precedence
\* test): any scores 1..5 and any combined score 1.0, 1.1, ..., 5.0.
SyntheticRows ==
  [R_Score : 1..5, F_Score : 1..5, M_Score : 1..5, RFM_Score : {3 * t : t \in 10..50}]

----------------------------------------------------------------------------
(* The script as a state machine.  Streamlit runs the script top to bottom *)
(* on every interaction: a run starts with the dataset loaded and          *)
(* filtered (pc = "start"), reads the analysis mode from the sidebar and   *)
(* executes that mode's block (pc = "done"); a rerun starts afresh.        *)

NotRun == [status |-> "none", rows |-> <<>>]

NoProbe == [status |-> "none"]

NoPrevious == [mode |-> "none"]

NoTieOrder == [known |-> FALSE, order |-> <<>>]

\* The state of a run that has not reached the analysis-mode block.
StartOfRun ==
  /\ pc = "start"
  /\ analysis_mode = "none"
  /\ abc_data = NotRun
  /\ abc_metrics = NotRun
  /\ freq_data = NotRun
  /\ rfm_data = NotRun
  /\ previous = NoPrevious

Init ==
  /\ StartOfRun
  /\ \/ filtered_df \in Datasets \cup Scenarios /\ probe = NoProbe
     \/ filtered_df = <<>> /\ probe \in {[status |-> "pending", row |-> r] : r \in SyntheticRows}
  /\ tie_order = NoTieOrder

\* analysis_mode == "ABC": abc_data = calculate_abc_segmentation(filtered_df),
\* then the metrics of the four columns
RunABC ==
  /\ pc = "start" /\ probe = NoProbe
  /\ pc' = "done"
  /\ analysis_mode' = "ABC"
  /\ \E tie \in TieOrders(filtered_df) :
       /\ tie_order.known => tie_order.order = tie
       /\ tie_order' = [known |-> TRUE, order |-> tie]
       /\ abc_data' \in abc_tables(filtered_df, tie)
  /\ abc_metrics' = abc_metrics_block(abc_data')
  /\ UNCHANGED <<filtered_df, freq_data, rfm_data, probe, previous>>

\* analysis_mode == "frequency"
RunFrequency ==
  /\ pc = "start" /\ probe = NoProbe
  /\ pc' = "done"
  /\ analysis_mode' = "frequency"
  /\ freq_data' = calculate_frequency_segmentation(filtered_df)
  /\ UNCHANGED <<filtered_df, abc_data, abc_metrics, rfm_data, probe, tie_order, previous>>

\* analysis_mode == "RFM"; an exception of the segmenter ends the run
RunRFM ==
  /\ pc = "start" /\ probe = NoProbe
  /\ pc' = "done"
  /\ analysis_mode' = "RFM"
  /\ rfm_data' = calculate_rfm_segmentation(filtered_df)
  /\ UNCHANGED <<filtered_df, abc_data, abc_metrics, freq_data, probe, tie_order, previous>>

\* analysis_mode == "normal": no segmenter is called
RunNormal ==
  /\ pc = "start" /\ probe = NoProbe
  /\ pc' = "done"
  /\ analysis_mode' = "normal"
  /\ UNCHANGED <<filtered_df, abc_data, abc_metrics, freq_data, rfm_data, probe, tie_order,
                 previous>>

\* A later run of the script on the same filtered dataset, on this or on
\* another installation: nothing of the previous run is kept.
Rerun ==
  /\ pc = "done" /\ probe = NoProbe
  /\ pc' = "start"
  /\ analysis_mode' = "none"
  /\ abc_data' = NotRun
  /\ abc_metrics' = NotRun
  /\ freq_data' = NotRun
  /\ rfm_data' = NotRun
  /\ tie_order' = NoTieOrder
  /\ UNCHANGED <<filtered_df, probe, previous>>

\* classify_rfm applied to one row
ClassifyRow ==
  /\ probe.status = "pending"
  /\ probe' = [status |-> "done", row |-> probe.row, segment |-> classify_rfm(probe.row)]
  /\ UNCHANGED <<pc, filtered_df, analysis_mode, abc_data, abc_metrics, freq_data, rfm_data,
                 tie_order, previous>>

Next == RunABC \/ RunFrequency \/ RunRFM \/ RunNormal \/ Rerun \/ ClassifyRow

Spec == Init /\ [][Next]_vars

----------------------------------------------------------------------------
(* Repeated runs on one installation, with the records of the dataset      *)
(* presented in any order: the table of the last finished run is kept in   *)
(* previous for comparison.                                                *)

ShuffledRecords ==
  [customer_id : 1..MaxShuffledCustomers, amount : Amounts, date : Dates]

ShuffledDatasets == UNION {DatasetsFrom(n, ShuffledRecords) : n \in 0..MaxShuffledRecords}

\* The table the finished run produced.
CurrentTable ==
  IF analysis_mode = "ABC" THEN abc_data
  ELSE IF analysis_mode = "frequency" THEN freq_data
  ELSE rfm_data

InitOrder ==
  /\ StartOfRun
  /\ probe = NoProbe
  /\ tie_order = NoTieOrder
  /\ filtered_df \in ShuffledDatasets

\* The next run of the script on the same installation; the table of the
\* finished run is remembered.
RerunSameInstallation ==
  /\ pc = "done" /\ analysis_mode \in {"ABC", "frequency", "RFM"}
  /\ previous' = [mode |-> analysis_mode, table |-> CurrentTable]
  /\ pc' = "start"
  /\ analysis_mode' = "none"
  /\ abc_data' = NotRun
  /\ abc_metrics' = NotRun
  /\ freq_data' = NotRun
  /\ rfm_data' = NotRun
  /\ UNCHANGED <<filtered_df, probe, tie_order>>

\* The loader presents the same records in another order: two neighbouring
\* records change places.
Reorder ==
  /\ pc = "start"
  /\ \E i \in 1..(Len(filtered_df) - 1) :
       /\ filtered_df[i] # filtered_df[i + 1]
       /\ filtered_df' = [filtered_df EXCEPT ![i] = filtered_df[i + 1],
                                             ![i + 1] = filtered_df[i]]
  /\ UNCHANGED <<pc, analysis_mode, abc_data, abc_metrics, freq_data, rfm_data, probe,
                 tie_order, previous>>

NextOrder == RunABC \/ RunFrequency \/ RunRFM \/ RerunSameInstallation \/ Reorder

SpecOrder == InitOrder /\ [][NextOrder]_vars

----------------------------------------------------------------------------
(* Vocabulary of the properties.                                           *)

AbcDone == pc = "done" /\ analysis_mode = "ABC" /\ abc_data.status = "ok"

FreqDone == pc = "done" /\ analysis_mode = "frequency" /\ freq_data.status = "ok"

RfmRan == pc = "done" /\ analysis_mode = "RFM"

RfmDone == RfmRan /\ rfm_data.status = "ok"

\* The customers of the ABC table that carry a given tier.
TierSet(tier) ==
  {abc_data.rows[i].customer_id : i \in {j \in DOMAIN abc_data.rows : abc_data.rows[j].abc_rank = tier}}

\* A cumulative share that is a number and equals 100 percent.
IsHundredPercent(ratio) == ~ratio.nan /\ ratio.num = 100 * ratio.den

LastRow(rows) == rows[Len(rows)]

AllAmountsZero(df) == \A i \in DOMAIN df : df[i].amount = 0

----------------------------------------------------------------------------
(* C1: the ABC tiers follow the rank position with exclusive boundaries:   *)
(* of n customers in descending order of spend the first floor(0.2 n) are  *)
(* A, the rows after them up to position floor(0.5 n) are B, the rest C;   *)
(* for the 10 customers 1000..100 that is A = top 2, B = next 3, C = the   *)
(* remaining 5.  The code's slices include their end label: violated.      *)
C1_TiersByExclusiveBoundaries ==
  AbcDone =>
    /\ \A i \in DOMAIN abc_data.rows :
         LET n == Len(abc_data.rows)
         IN abc_data.rows[i].abc_rank =
              IF i <= (2 * n) \div 10 THEN "A"
              ELSE IF i <= n \div 2 THEN "B"
              ELSE "C"
    /\ filtered_df = Scenario10 =>
         /\ TierSet("A") = {1, 2}
         /\ TierSet("B") = {3, 4, 5}
         /\ TierSet("C") = 6..10

(* C2: a single customer with a single purchase of a positive amount gives *)
(* one ABC row, of tier A, with cumulative share 100%.  The row is         *)
(* relabelled B by the second slice assignment: violated.                  *)
C2_SingleCustomerIsTierA ==
  (AbcDone /\ Len(filtered_df) = 1 /\ filtered_df[1].amount > 0) =>
    /\ Len(abc_data.rows) = 1
    /\ abc_data.rows[1].abc_rank = "A"
    /\ IsHundredPercent(abc_data.rows[1].cum_ratio)

(* C3: for every non-empty dataset of non-negative amounts, all-zero ones  *)
(* included, the cumulative share of the last ABC row is 100%.  With a     *)
(* grand total of 0 the unguarded division yields NaN: violated.           *)
C3_LastShareIsHundred ==
  (AbcDone /\ filtered_df # <<>>) =>
    /\ abc_data.rows # <<>>
    /\ IsHundredPercent(LastRow(abc_data.rows).cum_ratio)

(* C4: on a dataset with zero records each of the three segmenters returns *)
(* an empty table and none ends in an error.  The RFM segmenter raises     *)
(* from the fallback binning of an empty column: violated.                 *)
C4_EmptyDatasetGivesEmptyTables ==
  (pc = "done" /\ filtered_df = <<>> /\ probe = NoProbe) =>
    /\ analysis_mode = "ABC" => abc_data.status = "ok" /\ abc_data.rows = <<>>
    /\ analysis_mode = "frequency" => freq_data.status = "ok" /\ freq_data.rows = <<>>
    /\ analysis_mode = "RFM" => rfm_data.status = "ok" /\ rfm_data.rows = <<>>

----------------------------------------------------------------------------
(* C5: the RFM segment of a row is the label of the first matching rule in *)
(* the order champion (score >= 4.5), promising (score >= 3.5), dormant    *)
(* (R <= 2), new high-value (F = 1 and M >= 4), new (F = 1), general: a    *)
(* later rule never overrides an earlier one, and a row with combined      *)
(* score 4.6 and F score 1 is a champion.  Scores are in units of 1/30.    *)
FirstMatchingRule(row, segment) ==
  /\ row.RFM_Score >= 135 => segment = "champion"
  /\ (row.RFM_Score < 135 /\ row.RFM_Score >= 105) => segment = "promising"
  /\ (row.RFM_Score < 105 /\ row.R_Score <= 2) => segment = "dormant"
  /\ (row.RFM_Score < 105 /\ row.R_Score > 2 /\ row.F_Score = 1 /\ row.M_Score >= 4)
       => segment = "new_high_value"
  /\ (row.RFM_Score < 105 /\ row.R_Score > 2 /\ row.F_Score = 1 /\ row.M_Score < 4)
       => segment = "new"
  /\ (row.RFM_Score < 105 /\ row.R_Score > 2 /\ row.F_Score # 1) => segment = "general"

C5_RulePrecedence ==
  /\ RfmDone => \A i \in DOMAIN rfm_data.rows :
                  FirstMatchingRule(rfm_data.rows[i], rfm_data.rows[i].segment)
  /\ probe.status = "done" =>
       /\ FirstMatchingRule(probe.row, probe.segment)
       /\ (probe.row.RFM_Score = 138 /\ probe.row.F_Score = 1) => probe.segment = "champion"

C5_Witness ==
  /\ probe.status = "done"
  /\ probe.row.RFM_Score = 138
  /\ probe.row.F_Score = 1
  /\ probe.segment = "champion"

(* C6: every row of an RFM result has R, F and M scores in 1..5, whether   *)
(* the column was scored by quantile binning or by the equal-width         *)
(* fallback.                                                               *)
C6_ScoresInRange ==
  RfmDone => \A i \in DOMAIN rfm_data.rows :
               /\ rfm_data.rows[i].R_Score \in 1..5
               /\ rfm_data.rows[i].F_Score \in 1..5
               /\ rfm_data.rows[i].M_Score \in 1..5

C6_Witness ==
  /\ RfmDone
  /\ Len(rfm_data.rows) >= 2
  /\ rfm_data.R_path = "qcut"
  /\ rfm_data.F_path = "cut"
  /\ \E i \in DOMAIN rfm_data.rows : rfm_data.rows[i].R_Score = 1

(* C7: when every customer of a non-empty dataset purchased exactly once,  *)
(* the frequency segmenter labels every customer new, and the RFM          *)
(* segmenter does not fail: frequency is scored by the equal-width         *)
(* fallback and all F scores are equal.  For every non-empty dataset a     *)
(* metric whose quantile edges coincide is scored by the fallback and the  *)
(* RFM segmenter returns a table.                                          *)
EveryCustomerOnce(df) ==
  df # <<>> /\ \A c \in CustomerIds(df) : Cardinality({i \in DOMAIN df : df[i].customer_id = c}) = 1

\* The quantile edges of the column do not delimit 5 bins.
LacksFiveQuantileBins(x) ==
  \E k \in 0..4 : QuantileEdge(x, k) = QuantileEdge(x, k + 1)

C7_DegenerateMetricsFallBack ==
  /\ (FreqDone /\ EveryCustomerOnce(filtered_df)) =>
       \A i \in DOMAIN freq_data.rows : freq_data.rows[i].segment = "new"
  /\ (RfmRan /\ filtered_df # <<>>) =>
       /\ rfm_data.status = "ok"
       /\ Len(rfm_data.rows) = Cardinality(CustomerIds(filtered_df))
       /\ LacksFiveQuantileBins([i \in DOMAIN rfm_data.rows |-> rfm_data.rows[i].Recency])
            => rfm_data.R_path = "cut"
       /\ LacksFiveQuantileBins([i \in DOMAIN rfm_data.rows |-> rfm_data.rows[i].Frequency])
            => rfm_data.F_path = "cut"
       /\ LacksFiveQuantileBins([i \in DOMAIN rfm_data.rows |-> rfm_data.rows[i].Monetary])
            => rfm_data.M_path = "cut"
  /\ (RfmRan /\ EveryCustomerOnce(filtered_df)) =>
       /\ rfm_data.F_path = "cut"
       /\ \A i, j \in DOMAIN rfm_data.rows : rfm_data.rows[i].F_Score = rfm_data.rows[j].F_Score

C7_Witness ==
  /\ RfmDone
  /\ EveryCustomerOnce(filtered_df)
  /\ Len(rfm_data.rows) >= 3
  /\ rfm_data.F_path = "cut"
  /\ rfm_data.M_path = "qcut"

(* C8: in a frequency result the tier of a customer is determined by the   *)
(* purchase count alone: 1 gives new, 2..4 repeat, 5 or more loyal; the    *)
(* tier never decreases (new < repeat < loyal) as the count grows.         *)
TierOrder(segment) ==
  IF segment = "new" THEN 1 ELSE IF segment = "repeat" THEN 2 ELSE IF segment = "loyal" THEN 3 ELSE 0

C8_FrequencyThresholds ==
  FreqDone =>
    /\ \A i \in DOMAIN freq_data.rows :
         LET row == freq_data.rows[i]
         IN /\ row.purchase_count = Cardinality({k \in DOMAIN filtered_df :
                                      filtered_df[k].customer_id = row.customer_id})
            /\ row.purchase_count = 1 => row.segment = "new"
            /\ row.purchase_count \in 2..4 => row.segment = "repeat"
            /\ row.purchase_count >= 5 => row.segment = "loyal"
    /\ \A i, j \in DOMAIN freq_data.rows :
         freq_data.rows[i].purchase_count <= freq_data.rows[j].purchase_count
           => TierOrder(freq_data.rows[i].segment) <= TierOrder(freq_data.rows[j].segment)

C8_Witness ==
  /\ FreqDone
  /\ \E i \in DOMAIN freq_data.rows :
       freq_data.rows[i].purchase_count = 1 /\ freq_data.rows[i].segment = "new"
  /\ \E i \in DOMAIN freq_data.rows :
       freq_data.rows[i].purchase_count = 2 /\ freq_data.rows[i].segment = "repeat"
  /\ \E i \in DOMAIN freq_data.rows :
       freq_data.rows[i].purchase_count = 5 /\ freq_data.rows[i].segment = "loyal"

(* C9: in an ABC result every customer of the input carries exactly one    *)
(* tier of A, B, C: the three tier sets are pairwise disjoint and their    *)
(* union is the set of distinct customers of the input.                    *)
C9_TiersPartitionCustomers ==
  AbcDone =>
    /\ TierSet("A") \cap TierSet("B") = {}
    /\ TierSet("A") \cap TierSet("C") = {}
    /\ TierSet("B") \cap TierSet("C") = {}
    /\ TierSet("A") \cup TierSet("B") \cup TierSet("C") = CustomerIds(filtered_df)
    /\ Len(abc_data.rows) = Cardinality(CustomerIds(filtered_df))

C9_Witness ==
  /\ AbcDone
  /\ TierSet("A") # {}
  /\ TierSet("B") # {}
  /\ TierSet("C") # {}

(* C10: within one result table of any of the three segmenters, two        *)
(* customers with equal aggregated metrics receive the same tier or        *)
(* segment label.  Violated by the ABC table, whose tiers follow the rank  *)
(* position: tied customers straddle a tier boundary.                      *)
SameAbcMetrics(r1, r2) ==
  r1.total_amount = r2.total_amount /\ r1.purchase_count = r2.purchase_count

SameRfmMetrics(r1, r2) ==
  r1.Recency = r2.Recency /\ r1.Frequency = r2.Frequency /\ r1.Monetary = r2.Monetary

FrequencyAndRfmLabelsByMetrics ==
  /\ FreqDone => \A i, j \in DOMAIN freq_data.rows :
                   SameAbcMetrics(freq_data.rows[i], freq_data.rows[j])
                     => freq_data.rows[i].segment = freq_data.rows[j].segment
  /\ RfmDone => \A i, j \in DOMAIN rfm_data.rows :
                  SameRfmMetrics(rfm_data.rows[i], rfm_data.rows[j])
                    => /\ rfm_data.rows[i].segment = rfm_data.rows[j].segment
                       /\ rfm_data.rows[i].R_Score = rfm_data.rows[j].R_Score
                       /\ rfm_data.rows[i].F_Score = rfm_data.rows[j].F_Score
                       /\ rfm_data.rows[i].M_Score = rfm_data.rows[j].M_Score

C10_EqualMetricsEqualLabel ==
  /\ FrequencyAndRfmLabelsByMetrics
  /\ AbcDone => \A i, j \in DOMAIN abc_data.rows :
                  SameAbcMetrics(abc_data.rows[i], abc_data.rows[j])
                    => abc_data.rows[i].abc_rank = abc_data.rows[j].abc_rank

(* C10 as amended: in a frequency or RFM result two customers with equal   *)
(* metrics receive the same label (and the same scores); in an ABC result  *)
(* two customers with equal metrics receive the same tier unless a tier    *)
(* boundary of the rank order (the 0-based row labels floor(0.2 n) and     *)
(* floor(0.5 n) + 1, where the B and the C rows begin) lies between their  *)
(* rows.                                                                   *)
BoundaryBetween(i, j, n) ==
  \E start \in {(2 * n) \div 10, (n \div 2) + 1} : i - 1 < start /\ start <= j - 1

C10_LabelsByMetricsOrRank ==
  /\ FrequencyAndRfmLabelsByMetrics
  /\ AbcDone => \A i, j \in DOMAIN abc_data.rows :
                  (i < j /\ SameAbcMetrics(abc_data.rows[i], abc_data.rows[j]))
                    => (abc_data.rows[i].abc_rank = abc_data.rows[j].abc_rank
                          <=> ~BoundaryBetween(i, j, Len(abc_data.rows)))

C10_Witness ==
  /\ RfmDone
  /\ rfm_data.M_path = "qcut"
  /\ \E i, j \in DOMAIN rfm_data.rows :
       /\ i # j
       /\ SameRfmMetrics(rfm_data.rows[i], rfm_data.rows[j])
       /\ rfm_data.rows[i].segment = rfm_data.rows[j].segment

----------------------------------------------------------------------------
(* C11: the table of a segmenter depends only on the records of the        *)
(* dataset, not on their order: a run returns the very table (same rows,   *)
(* same order, same labels) that the previous run of the same segmenter    *)
(* returned, whether the records were presented in the same order or in    *)
(* another one in between.                                                 *)
C11_SameTableForSameRecords ==
  (pc = "done" /\ previous.mode = analysis_mode) => CurrentTable = previous.table

\* Some neighbouring records are not in the order (customer, amount, date)
\* in which the datasets are first presented.
Reordered(df) == \E i \in 1..(Len(df) - 1) : ~NotAfter(df[i], df[i + 1])

C11_Witness ==
  /\ pc = "done"
  /\ previous.mode = "RFM"
  /\ analysis_mode = "RFM"
  /\ Reordered(filtered_df)
  /\ rfm_data.status = "ok"
  /\ Len(rfm_data.rows) = 2
  /\ rfm_data.rows[1].Frequency = 2
  /\ rfm_data = previous.table

----------------------------------------------------------------------------
(* C12: the aggregation of every segmenter has exactly one row per         *)
(* distinct customer of the input and no other row; the row's total is the *)
(* sum of that customer's amounts and its count the number of that         *)
(* customer's records, so the totals add up to the sum of all amounts and  *)
(* the counts to the number of records.                                    *)

\* The positions of a customer's records in the dataset.
PositionsOf(df, c) == {i \in DOMAIN df : df[i].customer_id = c}

\* The sum of the amounts at a set of positions, one record at a time.
RECURSIVE AmountAt(_, _)
AmountAt(df, I) ==
  IF I = {} THEN 0
  ELSE LET i == CHOOSE k \in I : TRUE IN df[i].amount + AmountAt(df, I \ {i})

IsAggregateOf(ids, totals, counts, df) ==
  /\ Range(ids) = {df[i].customer_id : i \in DOMAIN df}
  /\ \A i, j \in DOMAIN ids : ids[i] = ids[j] => i = j
  /\ \A i \in DOMAIN ids :
       /\ totals[i] = AmountAt(df, PositionsOf(df, ids[i]))
       /\ counts[i] = Cardinality(PositionsOf(df, ids[i]))
  /\ SeqSum(totals) = AmountAt(df, DOMAIN df)
  /\ SeqSum(counts) = Len(df)

C12_OneRowPerCustomerWithSums ==
  /\ AbcDone =>
       IsAggregateOf([i \in DOMAIN abc_data.rows |-> abc_data.rows[i].customer_id],
                     [i \in DOMAIN abc_data.rows |-> abc_data.rows[i].total_amount],
                     [i \in DOMAIN abc_data.rows |-> abc_data.rows[i].purchase_count],
                     filtered_df)
  /\ FreqDone =>
       IsAggregateOf([i \in DOMAIN freq_data.rows |-> freq_data.rows[i].customer_id],
                     [i \in DOMAIN freq_data.rows |-> freq_data.rows[i].total_amount],
                     [i \in DOMAIN freq_data.rows |-> freq_data.rows[i].purchase_count],
                     filtered_df)
  /\ RfmDone =>
       IsAggregateOf([i \in DOMAIN rfm_data.rows |-> rfm_data.rows[i].customer_id],
                     [i \in DOMAIN rfm_data.rows |-> rfm_data.rows[i].Monetary],
                     [i \in DOMAIN rfm_data.rows |-> rfm_data.rows[i].Frequency],
                     filtered_df)

\* An RFM table of two customers, one of them with two purchases on the
\* same day that add up to 2.
C12_Witness ==
  /\ RfmDone
  /\ Len(rfm_data.rows) = 2
  /\ Len(filtered_df) = 3
  /\ \E i \in DOMAIN rfm_data.rows :
       /\ rfm_data.rows[i].Frequency = 2
       /\ rfm_data.rows[i].Monetary = 2
       /\ \A j, k \in PositionsOf(filtered_df, rfm_data.rows[i].customer_id) :
            filtered_df[j].date = filtered_df[k].date

----------------------------------------------------------------------------
(* C13: the RFM scores are monotone in their metric: of two customers of   *)
(* one result, the one with the smaller or equal recency has the greater   *)
(* or equal R score, the one with the greater or equal frequency the       *)
(* greater or equal F score, and the one with the greater or equal         *)
(* monetary total the greater or equal M score, on the quantile path and   *)
(* on the equal-width path.                                                *)
C13_ScoresMonotone ==
  RfmDone =>
    \A i, j \in DOMAIN rfm_data.rows :
      LET a == rfm_data.rows[i]
          b == rfm_data.rows[j]
      IN /\ a.Recency <= b.Recency => a.R_Score >= b.R_Score
         /\ a.Frequency >= b.Frequency => a.F_Score >= b.F_Score
         /\ a.Monetary >= b.Monetary => a.M_Score >= b.M_Score

\* Recency scored by quantiles and frequency by equal-width bins, each with
\* two customers that differ in the metric and in the score.
C13_Witness ==
  /\ RfmDone
  /\ rfm_data.R_path = "qcut"
  /\ rfm_data.F_path = "cut"
  /\ \E i, j \in DOMAIN rfm_data.rows :
       /\ rfm_data.rows[i].Recency < rfm_data.rows[j].Recency
       /\ rfm_data.rows[i].R_Score > rfm_data.rows[j].R_Score
  /\ \E i, j \in DOMAIN rfm_data.rows :
       /\ rfm_data.rows[i].Frequency > rfm_data.rows[j].Frequency
       /\ rfm_data.rows[i].F_Score > rfm_data.rows[j].F_Score

----------------------------------------------------------------------------
(* C14: the ABC table is in descending order of total amount, customers    *)
(* with equal totals keep their aggregation order (ascending customer id,  *)
(* the order of the groups), the cumulative amount of a row is the sum of  *)
(* the totals down to that row, so it never decreases and ends at the      *)
(* grand total.                                                            *)
DescendingTotals(rows) ==
  \A i \in 1..(Len(rows) - 1) : rows[i].total_amount >= rows[i + 1].total_amount

TiesKeepAggregationOrder(rows) ==
  \A i, j \in DOMAIN rows :
    (i < j /\ rows[i].total_amount = rows[j].total_amount)
      => rows[i].customer_id < rows[j].customer_id

RunningSum(rows) ==
  /\ \A k \in DOMAIN rows :
       rows[k].cum_sales = SeqSum([i \in 1..k |-> rows[i].total_amount])
  /\ \A k \in 1..(Len(rows) - 1) : rows[k].cum_sales <= rows[k + 1].cum_sales
  /\ rows # <<>> => LastRow(rows).cum_sales = AmountAt(filtered_df, DOMAIN filtered_df)

C14_DescendingStableRunningSum ==
  AbcDone =>
    /\ DescendingTotals(abc_data.rows)
    /\ TiesKeepAggregationOrder(abc_data.rows)
    /\ RunningSum(abc_data.rows)

----------------------------------------------------------------------------
(* C15: with an empty filtered dataset in ABC mode, the block that shows   *)
(* the tier metrics completes without dividing by zero.                    *)
C15_EmptyAbcMetricsComplete ==
  (pc = "done" /\ analysis_mode = "ABC" /\ filtered_df = <<>>)
    => abc_metrics.status = "ok"

----------------------------------------------------------------------------
(* C16: when every customer of a non-empty dataset has the same number of  *)
(* purchases, the frequency is scored by the equal-width fallback, every F *)
(* score is 3 and no customer is labelled new or new high-value.           *)
UniformPurchaseCount(df) ==
  /\ df # <<>>
  /\ \A i, j \in DOMAIN df :
       Cardinality(PositionsOf(df, df[i].customer_id))
         = Cardinality(PositionsOf(df, df[j].customer_id))

C16_UniformFrequencyScoresThree ==
  (RfmRan /\ UniformPurchaseCount(filtered_df)) =>
    /\ rfm_data.status = "ok"
    /\ rfm_data.F_path = "cut"
    /\ \A i \in DOMAIN rfm_data.rows :
         /\ rfm_data.rows[i].F_Score = 3
         /\ rfm_data.rows[i].segment \notin {"new", "new_high_value"}

\* Two customers with two purchases each; one of them has the M score 4 or
\* more that the new high-value rule asks for.
C16_Witness ==
  /\ RfmDone
  /\ UniformPurchaseCount(filtered_df)
  /\ Len(rfm_data.rows) = 2
  /\ \A i \in DOMAIN rfm_data.rows :
       rfm_data.rows[i].Frequency = 2 /\ rfm_data.rows[i].F_Score = 3
  /\ \E i \in DOMAIN rfm_data.rows : rfm_data.rows[i].M_Score >= 4

====
